---- MODULE Spec2Model ----
(***************************************************************************)
(* Model of server-timing-header (express middleware that records named    *)
(* timing metrics per request and writes them as a Server-Timing header).  *)
(*                                                                         *)
(* Strings are sequences of one-character strings, so that the regular     *)
(* expressions, the template literals and JavaScript's property ordering   *)
(* can be computed character by character.  An optional JavaScript value   *)
(* is a sequence of length at most one: << >> is undefined (or null) and   *)
(* <<v>> is the value v.                                                   *)
(***************************************************************************)
EXTENDS Integers, Sequences, FiniteSets, TLC

VARIABLES
  pc,               \* "request" (no session yet), "handling", "sent"
  reqUA,            \* request.header('user-agent')
  optSendHeaders,   \* the sendHeaders option the middleware was created with
  oldSpecification, \* this.oldSpecification
  initialized,      \* this.initialized
  sendHeaders,      \* this.sendHeaders
  metrics,          \* this.metrics: own entries in Object.entries order
  metricsProto,     \* TRUE when the [[Prototype]] of this.metrics was replaced
  hooks,            \* this.hooks
  objProto,         \* properties written onto Object.prototype (process-wide)
  clock,            \* what process.hrtime() returns now: <<seconds, nanoseconds>>
  resHeader,        \* response.headers['server-timing']
  headerSent,       \* response.headerSent
  listeners,        \* number of onHeaders listeners registered on the response
  nextCalls,        \* the calls of next() so far: the argument list of each
  steps,            \* number of handler calls and clock ticks so far (bounded)
  lastCall,         \* the recording call the last step made, and how it ended
  firstSeen,        \* names recorded since the store was last emptied, in call order
  lastFinal,        \* the last addHeaders call: its inputs and what it rendered
  listenerRuns,     \* addHeaders invocations made by the onHeaders listener
  listenerWrites,   \* response.set calls made through the onHeaders listener
  removedHooks,     \* identities of the hooks removeHook has filtered out
  other,            \* the request, response and session of a second request in
                    \* the same process, while this one's handler runs
  probe,            \* input of a pure function under check
  probeOut          \* its result

vars == <<pc, reqUA, optSendHeaders, oldSpecification, initialized, sendHeaders,
          metrics, metricsProto, hooks, objProto, clock, resHeader, headerSent,
          listeners, nextCalls, steps, lastCall, firstSeen, lastFinal,
          listenerRuns, listenerWrites, removedHooks, other, probe, probeOut>>

(***************************************************************************)
(* Optional values                                                         *)
(***************************************************************************)
Undefined == << >>
Some(v) == <<v>>
IsDefined(o) == Len(o) > 0
Val(o) == o[1]

(***************************************************************************)
(* Characters and strings                                                  *)
(***************************************************************************)
Lower == <<"a","b","c","d","e","f","g","h","i","j","k","l","m",
           "n","o","p","q","r","s","t","u","v","w","x","y","z">>
Upper == <<"A","B","C","D","E","F","G","H","I","J","K","L","M",
           "N","O","P","Q","R","S","T","U","V","W","X","Y","Z">>
DigitChars == <<"0","1","2","3","4","5","6","7","8","9">>

Range(s) == {s[i] : i \in DOMAIN s}
LowerSet == Range(Lower)
DigitSet == Range(DigitChars)
UpperOf == [ch \in LowerSet |-> Upper[CHOOSE i \in DOMAIN Lower : Lower[i] = ch]]
ValueOf == [ch \in DigitSet |-> (CHOOSE i \in DOMAIN DigitChars : DigitChars[i] = ch) - 1]

IsDigit(ch) == ch \in DigitSet
DigitValue(ch) == ValueOf[ch]

\* The Canonicalize step of a regular expression with the i flag and without
\* the u flag: the character is upper-cased.
Canonicalize(ch) == IF ch \in LowerSet THEN UpperOf[ch] ELSE ch

\* parseInt(digits, 10) of a non-empty run of decimal digits
RECURSIVE ParseInt(_)
ParseInt(ds) ==
  IF Len(ds) = 0 THEN 0
  ELSE 10 * ParseInt(SubSeq(ds, 1, Len(ds) - 1)) + DigitValue(ds[Len(ds)])

\* an integer n inside a template literal: its decimal digits
RECURSIVE NatToString(_)
NatToString(n) ==
  IF n < 10 THEN <<DigitChars[n + 1]>>
  ELSE NatToString(n \div 10) \o <<DigitChars[(n % 10) + 1]>>

NumberToString(n) == IF n < 0 THEN <<"-">> \o NatToString(-n) ELSE NatToString(n)

\* Whether pattern pat occurs in s at 1-based position i; with ignoreCase each
\* character is canonicalized before the comparison.
Fold(ch, ignoreCase) == IF ignoreCase THEN Canonicalize(ch) ELSE ch

MatchesAt(s, pat, i, ignoreCase) ==
  /\ i >= 1
  /\ i + Len(pat) - 1 <= Len(s)
  /\ \A k \in DOMAIN pat : Fold(s[i + k - 1], ignoreCase) = Fold(pat[k], ignoreCase)

\* String.prototype.indexOf: the 0-based index of the first occurrence, or -1
IndexOf(s, pat) ==
  LET hits == {i \in 1..(Len(s) + 1) : MatchesAt(s, pat, i, FALSE)}
  IN IF hits = {} THEN -1
     ELSE (CHOOSE i \in hits : \A j \in hits : i <= j) - 1

(***************************************************************************)
(* ServerTiming.nameIsValid                                                *)
(***************************************************************************)
\* The grave accent (U+0060), which a TLA+ string literal cannot hold.
Grave == "grave"

\* the members written in the character class of the regular expression
NameClass ==
  {"!","#","$","%","&","'","*","+","-",".","^","_",Grave,"|","~"}
    \cup DigitSet \cup LowerSet
CanonicalNameClass == {Canonicalize(m) : m \in NameClass}

\* a character matches the class, under the i flag, when its canonical form
\* is the canonical form of a member
\* (variant: the class without the i flag)
NameClassIgnoreCaseBad(ch) == ch \in NameClass
NameClassIgnoreCase(ch) == Canonicalize(ch) \in CanonicalNameClass

\* /^[...]+$/gi.test(name): a fresh regular expression object on every call,
\* so lastIndex is 0; ^ and $ are the ends of the input (no m flag).
nameIsValid(name) ==
  /\ Len(name) >= 1
  /\ \A i \in DOMAIN name : NameClassIgnoreCase(name[i])

(***************************************************************************)
(* ServerTiming constructor: which wire format the client gets             *)
(***************************************************************************)
ChromeToken == <<" ","C","h","r","o","m","e","/">>
LineTerminators == {"\n", "\r"}
NewFormatAbove == 64

\* the digits that follow position p (1-based), as far as they go
RECURSIVE DigitRun(_, _)
DigitRun(s, p) ==
  IF p <= Len(s) /\ IsDigit(s[p]) THEN <<s[p]>> \o DigitRun(s, p + 1) ELSE << >>

\* / Chrome\/([\d]+)./gi tried at position i: the captured digits, or no match.
\* [\d]+ is greedy and gives back one digit when nothing is left for the dot.
ChromeMatchAt(s, i) ==
  IF ~MatchesAt(s, ChromeToken, i, TRUE) THEN Undefined
  ELSE LET run  == DigitRun(s, i + Len(ChromeToken))
           next == i + Len(ChromeToken) + Len(run)
       IN IF Len(run) = 0 THEN Undefined
          ELSE IF next <= Len(s) /\ s[next] \notin LineTerminators THEN Some(run)
          ELSE IF Len(run) >= 2 THEN Some(SubSeq(run, 1, Len(run) - 1))
          ELSE Undefined

\* RegExp.prototype.exec from lastIndex 0: the first position that matches
ChromeExec(s) ==
  LET hits == {i \in 1..Len(s) : IsDefined(ChromeMatchAt(s, i))}
  IN IF hits = {} THEN Undefined
     ELSE ChromeMatchAt(s, CHOOSE i \in hits : \A j \in hits : i <= j)

\* null > 64 is false
IsCanary(isChrome, chromeVersion) ==
  isChrome /\ IsDefined(chromeVersion) /\ Val(chromeVersion) > NewFormatAbove

OldSpecificationOf(userAgent) ==
  LET isChrome      == IndexOf(userAgent, ChromeToken) > -1
      chromeData    == ChromeExec(userAgent)
      chromeVersion == IF IsDefined(chromeData)
                         THEN Some(ParseInt(Val(chromeData))) ELSE Undefined
      isCanary      == IsCanary(isChrome, chromeVersion)
  IN isChrome /\ ~isCanary

(***************************************************************************)
(* Time: process.hrtime() and the duration of an interval                  *)
(***************************************************************************)
NanosPerSecond == 1000 * 1000 * 1000
NanosPerMilli == 1000 * 1000
TickNanos == NanosPerMilli \div 2

\* the clock half a millisecond later
Advance(ts) ==
  IF ts[2] + TickNanos >= NanosPerSecond
    THEN <<ts[1] + 1, ts[2] + TickNanos - NanosPerSecond>>
    ELSE <<ts[1], ts[2] + TickNanos>>

\* parseInt(ts[0] * 1e3 + ts[1] * 1e-6, 10): the number is written out and
\* its integer part is read back
ToMillis(ts) == ts[1] * 1000 + (ts[2] \div NanosPerMilli)

Abs(x) == IF x < 0 THEN -x ELSE x

\* (variant: the difference without Math.abs)
calculateDurationSigned(from, to) == ToMillis(to) - ToMillis(from)
calculateDuration(from, to) == Abs(ToMillis(to) - ToMillis(from))

(***************************************************************************)
(* JavaScript objects: this.metrics and the metric records in it           *)
(***************************************************************************)
Fields == {"from", "to", "description", "duration"}
EmptyObject == [f \in {} |-> Undefined]
ProtoName == <<"_","_","p","r","o","t","o","_","_">>
\* Names every object inherits from Object.prototype as functions
BuiltinNames == {<<"c","o","n","s","t","r","u","c","t","o","r">>,
                 <<"t","o","S","t","r","i","n","g">>}

\* a < b for canonical decimal numerals (no leading zero), digit by digit
NumeralLess(a, b) ==
  \/ Len(a) < Len(b)
  \/ /\ Len(a) = Len(b)
     /\ \E i \in DOMAIN a :
          /\ DigitValue(a[i]) < DigitValue(b[i])
          /\ \A j \in 1..(i - 1) : a[j] = b[j]

\* 2^32 - 1, the first numeral that is not an integer index
IndexLimit == <<"4","2","9","4","9","6","7","2","9","5">>

\* An integer index: a canonical decimal numeral below 2^32 - 1.  Such keys
\* are enumerated first, in ascending order, before every other key.
IsArrayIndex(name) ==
  /\ Len(name) >= 1
  /\ \A i \in DOMAIN name : IsDigit(name[i])
  /\ (Len(name) = 1 \/ name[1] # "0")
  /\ NumeralLess(name, IndexLimit)

HasOwn(ms, name) == \E i \in DOMAIN ms : ms[i].name = name
OwnIndex(ms, name) == CHOOSE i \in DOMAIN ms : ms[i].name = name

\* where a new own key is enumerated: the position it takes in Object.entries
KeyPosition(ms, name) ==
  IF IsArrayIndex(name)
    THEN 1 + Cardinality({i \in DOMAIN ms :
                 IsArrayIndex(ms[i].name) /\ NumeralLess(ms[i].name, name)})
    ELSE Len(ms) + 1

InsertKey(ms, name, obj) ==
  LET p == KeyPosition(ms, name)
  IN SubSeq(ms, 1, p - 1) \o <<[name |-> name, m |-> obj]>> \o SubSeq(ms, p, Len(ms))

\* (variant: the assignment replaces the object by one with that field only)
SetFieldReplacing(obj, field, value) == [f \in {field} |-> value]
\* obj[field] = value
SetField(obj, field, value) ==
  [f \in (DOMAIN obj) \cup {field} |-> IF f = field THEN value ELSE obj[f]]

\* obj.field read through the prototype chain (obj -> Object.prototype)
GetField(obj, proto, field) ==
  IF field \in DOMAIN obj THEN obj[field]
  ELSE IF field \in DOMAIN proto THEN proto[field]
  ELSE Undefined

\* typeof this.metrics[name] === 'undefined'.  __proto__ is an accessor that
\* returns the prototype object, and the built-in names are inherited
\* functions; the model's names never equal a property written onto
\* Object.prototype or onto a replaced prototype.
TypeofUndefined(S, name) ==
  /\ ~HasOwn(S.metrics, name)
  /\ name # ProtoName
  /\ name \notin BuiltinNames

(***************************************************************************)
(* The recording API.  S is the part of the heap a call can change:        *)
(* [metrics, proto, objProto, err].                                        *)
(***************************************************************************)
INVALID_NAME == "Name contain forbidden symbols"
HEADERS_SENT == "Headers was already sent and we can not add new headers"
NoError == "none"
\* the error a callback of the model raises, and the one Object.entries
\* raises on undefined
HOOK_ERROR == "hook failed"
TYPE_ERROR == "Cannot convert undefined or null to object"

Throw(S, e) == [S EXCEPT !.err = e]

\* this.metrics[name][field] = value, where this.metrics[name] is defined
AssignField(S, name, field, value) ==
  IF HasOwn(S.metrics, name)
    THEN LET i == OwnIndex(S.metrics, name)
         IN [S EXCEPT !.metrics[i].m = SetField(S.metrics[i].m, field, value)]
  ELSE IF name = ProtoName /\ ~S.proto
    THEN [S EXCEPT !.objProto = SetField(S.objProto, field, value)]
  ELSE S  \* lands on the replaced prototype or on a built-in function

\* (variant: set without the name check)
setNoCheck(S, name, field, value) ==
  IF TypeofUndefined(S, name)
    THEN [S EXCEPT !.metrics = InsertKey(S.metrics, name, SetField(EmptyObject, field, value))]
    ELSE AssignField(S, name, field, value)
set(S, name, field, value) ==
  IF ~nameIsValid(name) THEN Throw(S, INVALID_NAME)
  ELSE IF TypeofUndefined(S, name)
    THEN [S EXCEPT !.metrics = InsertKey(S.metrics, name, SetField(EmptyObject, field, value))]
  ELSE AssignField(S, name, field, value)

\* if (description): undefined and the empty string are falsy
TruthyString(d) == IsDefined(d) /\ Len(Val(d)) > 0
\* duration || ...: undefined and 0 are falsy
TruthyNumber(n) == IsDefined(n) /\ Val(n) # 0

description(S, name, text) == set(S, name, "description", text)

duration(S, name, ms) == set(S, name, "duration", ms)

from(S, name, desc, now) ==
  LET S1 == set(S, name, "from", Some(now))
  IN IF S1.err # NoError THEN S1
     ELSE IF TruthyString(desc) THEN description(S1, name, desc)
     ELSE S1

to(S, name, desc, now) ==
  LET S1 == set(S, name, "to", Some(now))
  IN IF S1.err # NoError THEN S1
     ELSE IF TruthyString(desc) THEN description(S1, name, desc)
     ELSE S1

\* this.metrics[name] = { description, duration }, duration defaulting to 0.0
add(S, name, desc, dur) ==
  LET d   == IF IsDefined(dur) THEN dur ELSE Some(0)
      obj == [f \in {"description", "duration"} |->
                 IF f = "description" THEN desc ELSE d]
  IN IF ~nameIsValid(name) THEN Throw(S, INVALID_NAME)
     ELSE IF name = ProtoName THEN [S EXCEPT !.proto = TRUE]
     ELSE IF HasOwn(S.metrics, name)
       THEN [S EXCEPT !.metrics[OwnIndex(S.metrics, name)].m = obj]
     ELSE [S EXCEPT !.metrics = InsertKey(S.metrics, name, obj)]

(***************************************************************************)
(* Rendering one metric                                                    *)
(***************************************************************************)
HEADER_NAME == "server-timing"
DescOpen == <<";","d","e","s","c","=","\"">>
DurOpen == <<";","d","u","r","=">>
Quote == <<"\"">>
OldDescOpen == <<";"," ","\"">>
Equals == <<"=">>

newStyle(name, desc, dur) ==
  name
    \o (IF IsDefined(desc) THEN DescOpen \o Val(desc) \o Quote ELSE << >>)
    \o (IF IsDefined(dur) THEN DurOpen \o NumberToString(Val(dur)) ELSE << >>)

oldStyle(name, desc, dur) ==
  name
    \o (IF IsDefined(dur) THEN Equals \o NumberToString(Val(dur)) ELSE << >>)
    \o (IF IsDefined(desc) THEN OldDescOpen \o Val(desc) \o Quote ELSE << >>)

\* const time = duration || ServerTiming.calculateDuration(from, to)
TimeOf(dur, fromTs, toTs) ==
  IF TruthyNumber(dur) THEN Val(dur) ELSE calculateDuration(fromTs, toTs)

\* what buildHeader hands to oldStyle or newStyle
RenderInput(metric) ==
  [name |-> metric.name,
   description |-> metric.description,
   time |-> TimeOf(metric.duration, metric.from, metric.to)]

buildHeader(metric, oldSpec) ==
  LET r == RenderInput(metric)
  IN IF oldSpec THEN oldStyle(r.name, r.description, Some(r.time))
     ELSE newStyle(r.name, r.description, Some(r.time))

(***************************************************************************)
(* Hooks                                                                   *)
(***************************************************************************)
\* (variant: a sort that puts a hook before the hooks of equal index)
RECURSIVE InsertSortedUnstable(_, _)
InsertSortedUnstable(sorted, h) ==
  IF Len(sorted) = 0 THEN <<h>>
  ELSE IF sorted[Len(sorted)].index < h.index THEN Append(sorted, h)
  ELSE Append(InsertSortedUnstable(SubSeq(sorted, 1, Len(sorted) - 1), h),
              sorted[Len(sorted)])
\* Array.prototype.sort with (a, b) => a.index - b.index: stable, in place
RECURSIVE InsertSorted(_, _)
InsertSorted(sorted, h) ==
  IF Len(sorted) = 0 THEN <<h>>
  ELSE IF sorted[Len(sorted)].index <= h.index THEN Append(sorted, h)
  ELSE Append(InsertSorted(SubSeq(sorted, 1, Len(sorted) - 1), h), sorted[Len(sorted)])

\* (variant: a sort that loses the first hook)
RECURSIVE SortHooksLosing(_)
SortHooksLosing(hs) ==
  IF Len(hs) <= 1 THEN << >>
  ELSE InsertSorted(SortHooksLosing(SubSeq(hs, 1, Len(hs) - 1)), hs[Len(hs)])
RECURSIVE SortHooks(_)
SortHooks(hs) ==
  IF Len(hs) = 0 THEN << >>
  ELSE InsertSorted(SortHooks(SubSeq(hs, 1, Len(hs) - 1)), hs[Len(hs)])

\* calculateDurationSmart(metric): the record's fields are read through the
\* prototype chain
calculateDurationSmart(m, proto, init, now) ==
  LET f == GetField(m, proto, "from")
      t == GetField(m, proto, "to")
      d == GetField(m, proto, "duration")
      fromLabel == IF IsDefined(f) THEN Val(f) ELSE init
      toLabel   == IF IsDefined(t) THEN Val(t) ELSE now
  IN IF TruthyNumber(d) THEN Val(d) ELSE calculateDuration(fromLabel, toLabel)

NameRender == <<"r","e","n","d","e","r">>
NameData == <<"d","a","t","a">>

\* the documented hook: const updated = { ...metrics }; if both data and render
\* are there, updated.render.duration = Math.abs(renderDuration - dataDuration)
SubtractDataTimeFromRenderTime(ms, env) ==
  IF HasOwn(ms, NameData) /\ HasOwn(ms, NameRender)
    THEN LET r == OwnIndex(ms, NameRender)
             renderDuration == calculateDurationSmart(ms[r].m, env.proto, env.init, env.now)
             dataDuration   == calculateDurationSmart(ms[OwnIndex(ms, NameData)].m,
                                                      env.proto, env.init, env.now)
         IN [ms EXCEPT ![r].m = SetField(ms[r].m, "duration",
                                         Some(Abs(renderDuration - dataDuration)))]
    ELSE ms

\* a hook that returns the mapping without the key data
DropData(ms) == SelectSeq(ms, LAMBDA entry : entry.name # NameData)

\* callback(metrics) for the callbacks of the model; env holds what a callback
\* reads besides its argument: [proto, init, now]
ApplyCallback(cb, ms, env) ==
  CASE cb = "copy"     -> ms
    [] cb = "clear"    -> << >>
    [] cb = "subtract" -> SubtractDataTimeFromRenderTime(ms, env)
    [] cb = "dropData" -> DropData(ms)
    [] cb = "undefined" -> << >>   \* returns nothing: no mapping to go on with
    [] cb = "number"   -> << >>    \* returns 5: a value without own entries
    [] OTHER           -> ms

\* What the reduce over the callbacks ends with: "thrown" when a callback
\* raised (the callbacks after it are not called), otherwise the kind of the
\* value the last callback returned.  A callback that returns its argument
\* passes the kind on; the others return a mapping of their own.
RECURSIVE FoldKind(_, _)
FoldKind(hs, kind) ==
  IF Len(hs) = 0 THEN kind
  ELSE LET cb == Head(hs).callback
       IN IF cb = "throw" THEN "thrown"
          ELSE FoldKind(Tail(hs),
                        CASE cb = "undefined" -> "undefined"
                          [] cb = "number"    -> "number"
                          [] cb = "copy"      -> kind
                          [] OTHER            -> "mapping")

RECURSIVE FoldHooks(_, _, _)
FoldHooks(hs, ms, env) ==
  IF Len(hs) = 0 THEN ms
  ELSE FoldHooks(Tail(hs), ApplyCallback(Head(hs).callback, ms, env), env)

\* this.hooks.push({ name, callback, index }); id is the identity of the pushed
\* object (the number of the handler call that made it) and explicit remembers
\* whether the caller gave callbackIndex
addHook(hs, name, callback, callbackIndex, id) ==
  LET index == IF IsDefined(callbackIndex) THEN Val(callbackIndex) ELSE Len(hs) + 1
  IN Append(hs, [name |-> name, callback |-> callback, index |-> index, id |-> id,
                 explicit |-> IsDefined(callbackIndex)])

\* (variant: only the first hook of that name is removed)
removeHookFirst(hs, name) ==
  LET hits == {i \in DOMAIN hs : hs[i].name = name}
  IN IF hits = {} THEN hs
     ELSE LET k == CHOOSE i \in hits : \A j \in hits : i <= j
          IN SubSeq(hs, 1, k - 1) \o SubSeq(hs, k + 1, Len(hs))
\* this.hooks = this.hooks.filter(({ name: callbackName }) => callbackName !== name)
removeHook(hs, name) == SelectSeq(hs, LAMBDA h : h.name # name)

(***************************************************************************)
(* addHeaders                                                              *)
(***************************************************************************)
NoHeader == [kind |-> "absent", values |-> << >>]

\* the argument addHeaders builds for buildHeader from one entry
MetricArg(entry, proto, init, now) ==
  LET f == GetField(entry.m, proto, "from")
      t == GetField(entry.m, proto, "to")
  IN [name        |-> entry.name,
      description |-> GetField(entry.m, proto, "description"),
      from        |-> IF IsDefined(f) THEN Val(f) ELSE init,
      to          |-> IF IsDefined(t) THEN Val(t) ELSE now,
      duration    |-> GetField(entry.m, proto, "duration")]

\* Array.isArray(response.headers['server-timing']) && its length > 0
ExistingValues(header) ==
  IF header.kind = "array" /\ Len(header.values) > 0 THEN header.values ELSE << >>

\* (variant: the store is kept)
ClearMetricsNot(S) == S
\* this.metrics = {}
ClearMetrics(S) == [S EXCEPT !.metrics = << >>, !.proto = FALSE]

\* (variant: response.set is called even when there is no value to set)
FinalizedAlwaysSets(S, hs, init, oldSpec, header, now) ==
  LET sorted  == SortHooks(hs)
      updated == FoldHooks(sorted, S.metrics,
                           [proto |-> S.objProto, init |-> init, now |-> now])
      args    == [i \in DOMAIN updated |-> MetricArg(updated[i], S.objProto, init, now)]
      frags   == [i \in DOMAIN updated |-> buildHeader(args[i], oldSpec)]
      all     == ExistingValues(header) \o frags
  IN [S       |-> ClearMetrics(S),
      hooks   |-> sorted,
      applied |-> sorted,
      header  |-> [kind |-> "array", values |-> all],
      wrote   |-> TRUE,
      updated |-> updated,
      args    |-> args,
      times   |-> [i \in DOMAIN updated |-> RenderInput(args[i]).time],
      frags   |-> frags]

\* The result of addHeaders(response): the heap part S afterwards, the sorted
\* hooks, the response header, and what was rendered on the way (the mapping
\* the hooks returned, buildHeader's arguments, the durations, the fragments).
Finalized(S, hs, init, oldSpec, header, now) ==
  LET sorted  == SortHooks(hs)
      kind    == FoldKind(sorted, "mapping")
      failure == IF kind = "thrown" THEN HOOK_ERROR
                 ELSE IF kind = "undefined" THEN TYPE_ERROR
                 ELSE NoError
      updated == FoldHooks(sorted, S.metrics,
                           [proto |-> S.objProto, init |-> init, now |-> now])
      args    == [i \in DOMAIN updated |-> MetricArg(updated[i], S.objProto, init, now)]
      frags   == [i \in DOMAIN updated |-> buildHeader(args[i], oldSpec)]
      all     == ExistingValues(header) \o frags
  IN IF failure # NoError
       THEN \* the exception leaves addHeaders before response.set and before
            \* this.metrics = {}; the hooks were sorted in place already
            [S |-> Throw(S, failure), hooks |-> sorted, applied |-> sorted,
             header |-> header, wrote |-> FALSE, updated |-> << >>,
             args |-> << >>, times |-> << >>, frags |-> << >>]
       ELSE [S       |-> ClearMetrics(S),
             hooks   |-> sorted,
             applied |-> sorted,
             header  |-> IF Len(all) > 0 THEN [kind |-> "array", values |-> all]
                         ELSE header,
             wrote   |-> Len(all) > 0,
             updated |-> updated,
             args    |-> args,
             times   |-> [i \in DOMAIN updated |-> RenderInput(args[i]).time],
             frags   |-> frags]

Refused(S, hs, header) ==
  [S |-> Throw(S, HEADERS_SENT), hooks |-> hs, applied |-> << >>, header |-> header,
   wrote |-> FALSE,
   updated |-> << >>, args |-> << >>, times |-> << >>, frags |-> << >>]

\* (variant: addHeaders without the headerSent check)
addHeadersNoGuard(S, hs, init, oldSpec, header, sent, now) ==
  Finalized(S, hs, init, oldSpec, header, now)
\* if (!this.addHeaders) return: a bound method is never falsy, so the first
\* guard never returns
addHeaders(S, hs, init, oldSpec, header, sent, now) ==
  IF sent THEN Refused(S, hs, header)
  ELSE Finalized(S, hs, init, oldSpec, header, now)

(***************************************************************************)
(* Bounds and inputs                                                       *)
(***************************************************************************)
MaxSteps == 3
MaxNameLen == 2

NameDb == <<"d","b">>
NameBad == <<"d","b",";">>
Names == {NameDb, NameBad}

TextD == <<"d">>
DescArgs == {Undefined, Some(TextD)}
DurationArgs == {Some(0), Some(123)}
\* add's third argument: left out (the default applies) or given
AddDurationArgs == {Undefined, Some(123)}

UALegacy == <<"M"," ","C","h","r","o","m","e","/","6","2",".","0">>
UACurrent == <<"M"," ","C","h","r","o","m","e","/","7","2",".","0">>
UserAgents == {Some(UALegacy), Some(UACurrent)}

UpstreamValue == <<"u","p">>
InitialHeaders == {NoHeader, [kind |-> "array", values |-> <<UpstreamValue>>]}

StartClock == <<0, NanosPerSecond - TickNanos>>

NoCall == [op |-> "none", name |-> << >>, desc |-> Undefined, dur |-> Undefined,
           err |-> NoError]
NoFinal == [seq |-> 0, via |-> "none", err |-> NoError, sentBefore |-> FALSE,
            call |-> NoCall, seen |-> << >>,
            before |-> << >>, objProto |-> EmptyObject, init |-> <<0, 0>>,
            now |-> <<0, 0>>, headerBefore |-> NoHeader, hooksBefore |-> << >>,
            applied |-> << >>, removed |-> {}, headerAfter |-> NoHeader, wrote |-> FALSE,
            updated |-> << >>, args |-> << >>, times |-> << >>, frags |-> << >>]

(***************************************************************************)
(* The middleware and the state machine of one request                     *)
(***************************************************************************)
Cur == [metrics |-> metrics, proto |-> metricsProto, objProto |-> objProto,
        err |-> NoError]

\* constructor (userAgent = '', sendHeaders = true)
UserAgentArg(header) == IF IsDefined(header) THEN Val(header) ELSE << >>

\* (variant: next is called a second time)
CallNextTwice(calls) == Append(Append(calls, << >>), << >>)
\* next(): one call with an empty argument list
CallNext(calls) == Append(calls, << >>)

\* how many onHeaders listeners the middleware registers
\* (variant: the listener registered twice)
\* (variant: the listener registered whatever the option says)
SubscriptionsAlways(opt) == 1
SubscriptionsTwice(opt) == IF opt THEN 2 ELSE 0
Subscriptions(opt) == IF opt THEN 1 ELSE 0

\* a request that has not reached the middleware yet, waiting while the
\* handler of another request runs
Waiting ==
  [pc |-> "request", reqUA |-> Some(UACurrent), oldSpecification |-> FALSE,
   initialized |-> <<0, 0>>, sendHeaders |-> TRUE, metrics |-> << >>,
   metricsProto |-> FALSE, hooks |-> << >>, resHeader |-> NoHeader,
   headerSent |-> FALSE, listeners |-> 0, nextCalls |-> << >>,
   lastCall |-> NoCall, firstSeen |-> << >>, lastFinal |-> NoFinal,
   listenerRuns |-> 0, listenerWrites |-> 0, removedHooks |-> {}]

Idle ==
  /\ pc = "request"
  /\ oldSpecification = FALSE
  /\ initialized = <<0, 0>>
  /\ sendHeaders = TRUE
  /\ metrics = << >>
  /\ metricsProto = FALSE
  /\ hooks = << >>
  /\ objProto = EmptyObject
  /\ clock = StartClock
  /\ headerSent = FALSE
  /\ listeners = 0
  /\ nextCalls = << >>
  /\ steps = 0
  /\ lastCall = NoCall
  /\ firstSeen = << >>
  /\ lastFinal = NoFinal
  /\ listenerRuns = 0
  /\ listenerWrites = 0
  /\ removedHooks = {}
  /\ other = Waiting

Init ==
  /\ Idle
  /\ reqUA \in UserAgents
  /\ optSendHeaders \in BOOLEAN
  /\ resHeader \in InitialHeaders
  /\ probe = << >>
  /\ probeOut = Undefined

serverTimingMiddleware ==
  /\ pc = "request"
  /\ oldSpecification' = OldSpecificationOf(UserAgentArg(reqUA))
  /\ initialized' = clock
  /\ sendHeaders' = optSendHeaders
  /\ metrics' = << >>
  /\ metricsProto' = FALSE
  /\ hooks' = << >>
  /\ listeners' = Subscriptions(optSendHeaders)
  /\ nextCalls' = CallNext(nextCalls)
  /\ pc' = "handling"
  /\ UNCHANGED <<other, removedHooks, reqUA, optSendHeaders, objProto, clock, resHeader, headerSent,
                 steps, lastCall, firstSeen, lastFinal, listenerRuns,
                 listenerWrites, probe, probeOut>>

\* a recording call made by handler code, with its arguments and outcome
Note(seen, name, err) ==
  IF err = NoError /\ name \notin Range(seen) THEN Append(seen, name) ELSE seen

Recorded(op, name, d, ms, Result) ==
  /\ pc # "request"
  /\ steps < MaxSteps
  /\ LET R == Result
     IN /\ metrics' = R.metrics
        /\ metricsProto' = R.proto
        /\ objProto' = R.objProto
        /\ lastCall' = [op |-> op, name |-> name, desc |-> d, dur |-> ms, err |-> R.err]
        /\ firstSeen' = Note(firstSeen, name, R.err)
  /\ steps' = steps + 1
  /\ UNCHANGED <<other, removedHooks, pc, reqUA, optSendHeaders, oldSpecification, initialized,
                 sendHeaders, hooks, clock, resHeader, headerSent, listeners,
                 nextCalls, lastFinal, listenerRuns, listenerWrites, probe,
                 probeOut>>

\* the recording calls handler code makes, with arguments from the given sets
FromWith(NS, DS) ==
  \E name \in NS, d \in DS :
     Recorded("from", name, d, Undefined, from(Cur, name, d, clock))

ToWith(NS, DS) ==
  \E name \in NS, d \in DS :
     Recorded("to", name, d, Undefined, to(Cur, name, d, clock))

DescriptionWith(NS, DS) ==
  \E name \in NS, d \in DS :
     Recorded("description", name, d, Undefined, description(Cur, name, d))

DurationWith(NS, MS) ==
  \E name \in NS, ms \in MS :
     Recorded("duration", name, Undefined, ms, duration(Cur, name, ms))

AddWith(NS, DS, MS) ==
  \E name \in NS, d \in DS, ms \in MS :
     Recorded("add", name, d, ms, add(Cur, name, d, ms))

\* time passes
Tick ==
  /\ pc # "request"
  /\ steps < MaxSteps
  /\ clock' = Advance(clock)
  /\ steps' = steps + 1
  /\ lastCall' = NoCall
  /\ UNCHANGED <<other, removedHooks, pc, reqUA, optSendHeaders, oldSpecification, initialized,
                 sendHeaders, metrics, metricsProto, hooks, objProto, resHeader,
                 headerSent, listeners, nextCalls, firstSeen, lastFinal,
                 listenerRuns, listenerWrites, probe, probeOut>>

FinalRecord(via, R) ==
  [seq |-> lastFinal.seq + 1, via |-> via, err |-> R.S.err, sentBefore |-> headerSent,
   call |-> lastCall, seen |-> firstSeen,
   before |-> metrics, objProto |-> objProto, init |-> initialized, now |-> clock,
   headerBefore |-> resHeader, hooksBefore |-> hooks, applied |-> R.applied,
   removed |-> removedHooks, headerAfter |-> R.header, wrote |-> R.wrote,
   updated |-> R.updated,
   args |-> R.args, times |-> R.times, frags |-> R.frags]

\* this.metrics = {} forgets the names recorded so far
SeenAfter(R) == IF R.S.err = NoError THEN << >> ELSE firstSeen

\* (variant: finalize falls back to the current format)
AddHeadersWithinResetting(bound) ==
  /\ pc # "request"
  /\ steps < bound
  /\ LET R == addHeaders(Cur, hooks, initialized, oldSpecification, resHeader,
                         headerSent, clock)
     IN /\ metrics' = R.S.metrics
        /\ metricsProto' = R.S.proto
        /\ objProto' = R.S.objProto
        /\ hooks' = R.hooks
        /\ resHeader' = R.header
        /\ lastFinal' = FinalRecord("direct", R)
        /\ firstSeen' = SeenAfter(R)
  /\ oldSpecification' = FALSE
  /\ steps' = steps + 1
  /\ lastCall' = NoCall
  /\ UNCHANGED <<other, removedHooks, pc, reqUA, optSendHeaders, initialized,
                 sendHeaders, clock, headerSent, listeners, nextCalls,
                 listenerRuns, listenerWrites, probe, probeOut>>
\* (variant: a session constructed with sendHeaders = false returns early)
AddHeadersWithinGuarded(bound) ==
  /\ pc # "request"
  /\ steps < bound
  /\ LET R == IF sendHeaders
                THEN addHeaders(Cur, hooks, initialized, oldSpecification, resHeader,
                                headerSent, clock)
                ELSE [S |-> Cur, hooks |-> hooks, applied |-> << >>,
                      header |-> resHeader, wrote |-> FALSE, updated |-> << >>,
                      args |-> << >>, times |-> << >>, frags |-> << >>]
     IN /\ metrics' = R.S.metrics
        /\ metricsProto' = R.S.proto
        /\ objProto' = R.S.objProto
        /\ hooks' = R.hooks
        /\ resHeader' = R.header
        /\ lastFinal' = FinalRecord("direct", R)
        /\ firstSeen' = IF sendHeaders THEN SeenAfter(R) ELSE firstSeen
  /\ steps' = steps + 1
  /\ lastCall' = NoCall
  /\ UNCHANGED <<other, removedHooks, pc, reqUA, optSendHeaders, oldSpecification, initialized,
                 sendHeaders, clock, headerSent, listeners, nextCalls,
                 listenerRuns, listenerWrites, probe, probeOut>>
\* request.serverTiming.addHeaders(response) called by handler code
AddHeadersWithin(bound) ==
  /\ pc # "request"
  /\ steps < bound
  /\ LET R == addHeaders(Cur, hooks, initialized, oldSpecification, resHeader,
                         headerSent, clock)
     IN /\ metrics' = R.S.metrics
        /\ metricsProto' = R.S.proto
        /\ objProto' = R.S.objProto
        /\ hooks' = R.hooks
        /\ resHeader' = R.header
        /\ lastFinal' = FinalRecord("direct", R)
        /\ firstSeen' = SeenAfter(R)
  /\ steps' = steps + 1
  /\ lastCall' = NoCall
  /\ UNCHANGED <<other, removedHooks, pc, reqUA, optSendHeaders, oldSpecification, initialized,
                 sendHeaders, clock, headerSent, listeners, nextCalls,
                 listenerRuns, listenerWrites, probe, probeOut>>

CallAddHeaders == AddHeadersWithin(MaxSteps)

\* The listeners the middleware registered with onHeaders run, one after the
\* other: () => { request.serverTiming.addHeaders(response) }.  T carries the
\* heap, the hooks and the header from one listener to the next, the first
\* call's result, and the numbers of calls and of header writes.
RECURSIVE RunListeners(_, _)
RunListeners(n, T) ==
  IF n = 0 THEN T
  ELSE LET R == addHeaders(T.S, T.hooks, initialized, oldSpecification, T.header,
                           headerSent, clock)
       IN RunListeners(n - 1,
            [S |-> R.S, hooks |-> R.hooks, header |-> R.header,
             first |-> IF T.runs = 0 THEN R ELSE T.first,
             runs |-> T.runs + 1,
             writes |-> T.writes + (IF R.wrote THEN 1 ELSE 0)])

\* The response is about to send its headers: the onHeaders listeners run and
\* then the headers are transmitted.
WriteHead ==
  /\ pc = "handling"
  /\ IF listeners = 0
       THEN UNCHANGED <<other, removedHooks, metrics, metricsProto, objProto, hooks, resHeader, lastFinal,
                        firstSeen, listenerRuns, listenerWrites>>
       ELSE LET T == RunListeners(listeners,
                        [S |-> Cur, hooks |-> hooks, header |-> resHeader,
                         first |-> Refused(Cur, hooks, resHeader),
                         runs |-> 0, writes |-> 0])
            IN /\ metrics' = T.S.metrics
               /\ metricsProto' = T.S.proto
               /\ objProto' = T.S.objProto
               /\ hooks' = T.hooks
               /\ resHeader' = T.header
               /\ lastFinal' = FinalRecord("listener", T.first)
               /\ firstSeen' = SeenAfter(T.first)
               /\ listenerRuns' = listenerRuns + T.runs
               /\ listenerWrites' = listenerWrites + T.writes
  /\ headerSent' = TRUE
  /\ pc' = "sent"
  /\ lastCall' = NoCall
  /\ UNCHANGED <<other, removedHooks, reqUA, optSendHeaders, oldSpecification, initialized, sendHeaders,
                 clock, listeners, nextCalls, steps, probe, probeOut>>

(***************************************************************************)
(* Spec: one request from the middleware to the sent response, with valid  *)
(* and invalid names                                                       *)
(***************************************************************************)
CallFrom == FromWith(Names, DescArgs)
CallTo == ToWith(Names, DescArgs)
CallDescription == DescriptionWith(Names, {Some(TextD)})
CallDuration == DurationWith(Names, {Some(123)})
CallAdd == AddWith(Names, {Some(TextD)}, DurationArgs)

Next ==
  \/ serverTimingMiddleware
  \/ CallFrom
  \/ CallTo
  \/ CallDescription
  \/ CallDuration
  \/ CallAdd
  \/ CallAddHeaders
  \/ WriteHead
  \/ Tick

Spec == Init /\ [][Next]_vars

(***************************************************************************)
(* SpecRender: what finalize renders for metrics recorded under valid      *)
(* names, for a client of each format                                      *)
(***************************************************************************)
RenderNames == {NameDb, ProtoName}

InitRender ==
  /\ Idle
  /\ reqUA \in UserAgents
  /\ optSendHeaders = TRUE
  /\ resHeader = NoHeader
  /\ probe = << >>
  /\ probeOut = Undefined

RenderFrom == FromWith(RenderNames, {Undefined})
RenderTo == ToWith(RenderNames, {Undefined})
RenderDescription == DescriptionWith(RenderNames, {Some(TextD)})
RenderDuration == DurationWith(RenderNames, DurationArgs)
RenderAdd == AddWith(RenderNames, {Some(TextD)}, AddDurationArgs)

NextRender ==
  \/ serverTimingMiddleware
  \/ RenderFrom
  \/ RenderTo
  \/ RenderDescription
  \/ RenderDuration
  \/ RenderAdd
  \/ WriteHead
  \/ Tick

SpecRender == InitRender /\ [][NextRender]_vars

(***************************************************************************)
(* SpecOrder: the order in which finalize emits the metrics                *)
(***************************************************************************)
NameA == <<"a">>
NameTwo == <<"2">>
NameTen == <<"1","0">>
OrderNames == {NameDb, NameA, NameTwo, NameTen}

InitOrder ==
  /\ Idle
  /\ reqUA = Some(UACurrent)
  /\ optSendHeaders = TRUE
  /\ resHeader = NoHeader
  /\ probe = << >>
  /\ probeOut = Undefined

OrderFrom == FromWith(OrderNames, {Undefined})
OrderAdd == AddWith(OrderNames, {Some(TextD)}, {Some(123)})

NextOrder ==
  \/ serverTimingMiddleware
  \/ OrderFrom
  \/ OrderAdd
  \/ CallAddHeaders
  \/ WriteHead

SpecOrder == InitOrder /\ [][NextOrder]_vars

(***************************************************************************)
(* SpecName: nameIsValid on names over a sample of characters              *)
(***************************************************************************)
NameAlphabet ==
  {"a", "Z", "7", "!", "-", ".", "_", "~", Grave,
   " ", "\t", "\n", "(", ")", "/", ":", ";", "<", "=", ">", "?", "@",
   "[", "]", "{", "}", "\"", ",", "\\"}

RECURSIVE StringsUpTo(_, _)
StringsUpTo(A, n) ==
  IF n = 0 THEN {<< >>}
  ELSE LET shorter == StringsUpTo(A, n - 1)
       IN shorter \cup {Append(w, ch) : w \in shorter, ch \in A}

InitName ==
  /\ Idle
  /\ reqUA = Undefined
  /\ optSendHeaders = TRUE
  /\ resHeader = NoHeader
  /\ probe \in StringsUpTo(NameAlphabet, MaxNameLen)
  /\ probeOut = Undefined

CheckName ==
  /\ probeOut = Undefined
  /\ probeOut' = Some(nameIsValid(probe))
  /\ UNCHANGED <<other, removedHooks, pc, reqUA, optSendHeaders, oldSpecification, initialized,
                 sendHeaders, metrics, metricsProto, hooks, objProto, clock,
                 resHeader, headerSent, listeners, nextCalls, steps, lastCall,
                 firstSeen, lastFinal, listenerRuns, listenerWrites, probe>>

NextName == CheckName

SpecName == InitName /\ [][NextName]_vars

(***************************************************************************)
(* SpecUA: the constructor on a sample of user-agent strings               *)
(***************************************************************************)
UAPrefixes == {<< >>, <<"M","o","z">>}
UATokens == {<< >>, ChromeToken, <<" ","c","h","r","o","m","e","/">>,
             <<"C","h","r","o","m","e","/">>}
UAVersions == {<< >>, <<"7">>, <<"6","2">>, <<"6","4">>, <<"6","5">>, <<"7","2">>,
               <<"1","0","0">>}
UASuffixes == {<< >>, <<".">>, <<".","0"," ","S">>}
UASamples ==
  {p \o t \o v \o x : p \in UAPrefixes, t \in UATokens, v \in UAVersions,
                      x \in UASuffixes}

InitUA ==
  /\ Idle
  /\ reqUA \in {Undefined} \cup {Some(ua) : ua \in UASamples}
  /\ optSendHeaders = TRUE
  /\ resHeader = NoHeader
  /\ probe = << >>
  /\ probeOut = Undefined

NextUA == serverTimingMiddleware

SpecUA == InitUA /\ [][NextUA]_vars

(***************************************************************************)
(* SpecHooks: registering and removing hooks, and the order in which       *)
(* finalize applies them                                                   *)
(***************************************************************************)
MaxHookSteps == 5

HookNames == {"h1", "h2"}
HookIndexArgs == {Undefined, Some(1)}

InitHooks ==
  /\ Idle
  /\ reqUA = Some(UACurrent)
  /\ optSendHeaders = TRUE
  /\ resHeader = NoHeader
  /\ probe = << >>
  /\ probeOut = Undefined

\* a call that changes this.hooks only
HookCall(op, name, index, hs, gone) ==
  /\ pc # "request"
  /\ steps < MaxHookSteps
  /\ hooks' = hs
  /\ removedHooks' = removedHooks \cup gone
  /\ steps' = steps + 1
  /\ lastCall' = [op |-> op, name |-> name, desc |-> Undefined, dur |-> index,
                  err |-> NoError]
  /\ UNCHANGED <<other, pc, reqUA, optSendHeaders, oldSpecification, initialized,
                 sendHeaders, metrics, metricsProto, objProto, clock, resHeader,
                 headerSent, listeners, nextCalls, firstSeen, lastFinal,
                 listenerRuns, listenerWrites, probe, probeOut>>

AddHookWith(NS, CS, IS) ==
  \E name \in NS, cb \in CS, index \in IS :
     HookCall("addHook", name, index, addHook(hooks, name, cb, index, steps + 1), {})

RemoveHookWith(NS) ==
  \E name \in NS :
     LET hs == removeHook(hooks, name)
     IN HookCall("removeHook", name, Undefined, hs,
                 {h.id : h \in Range(hooks)} \ {h.id : h \in Range(hs)})

HookAdd == AddHookWith(HookNames, {"copy"}, HookIndexArgs)
HookRemove == RemoveHookWith(HookNames)
HookFinalize == AddHeadersWithin(MaxHookSteps)

NextHooks ==
  \/ serverTimingMiddleware
  \/ HookAdd
  \/ HookRemove
  \/ HookFinalize
  \/ WriteHead

SpecHooks == InitHooks /\ [][NextHooks]_vars

(***************************************************************************)
(* SpecFold: hooks that change the mapping finalize renders                *)
(***************************************************************************)
InitFold ==
  /\ Idle
  /\ reqUA \in UserAgents
  /\ optSendHeaders = TRUE
  /\ resHeader = NoHeader
  /\ probe = << >>
  /\ probeOut = Undefined

FoldAddRender == AddWith({NameRender}, {Some(TextD)}, {Some(600)})
FoldAddData == AddWith({NameData}, {Some(TextD)}, {Some(550), Some(600)})
FoldHookSubtract == AddHookWith({"substractDataTimeFromRenderTime"}, {"subtract"}, {Undefined})
FoldHookDrop == AddHookWith({"dropData"}, {"dropData"}, HookIndexArgs)

NextFold ==
  \/ serverTimingMiddleware
  \/ FoldAddRender
  \/ FoldAddData
  \/ FoldHookSubtract
  \/ FoldHookDrop
  \/ Tick
  \/ WriteHead

SpecFold == InitFold /\ [][NextFold]_vars

(***************************************************************************)
(* SpecHeader: finalize on a response that may already carry server-timing *)
(* values, once or several times                                           *)
(***************************************************************************)
UpstreamOther == <<"c","d","n">>
\* res.set('Server-Timing', value) upstream: a single string or a list
ExistingHeaders ==
  {NoHeader,
   [kind |-> "string", values |-> <<UpstreamValue>>],
   [kind |-> "array", values |-> <<UpstreamValue>>],
   [kind |-> "array", values |-> <<UpstreamValue, UpstreamOther>>]}

InitHeader ==
  /\ Idle
  /\ reqUA = Some(UACurrent)
  /\ optSendHeaders \in BOOLEAN
  /\ resHeader \in ExistingHeaders
  /\ probe = << >>
  /\ probeOut = Undefined

HeaderAdd == AddWith({NameDb, NameA}, {Some(TextD)}, {Some(123)})
HeaderHook == AddHookWith({"h1"}, {"copy"}, {Undefined})

NextHeader ==
  \/ serverTimingMiddleware
  \/ HeaderAdd
  \/ HeaderHook
  \/ CallAddHeaders
  \/ WriteHead

SpecHeader == InitHeader /\ [][NextHeader]_vars

(***************************************************************************)
(* SpecRecord: recording calls on new and on existing metrics, with every  *)
(* kind of description argument                                            *)
(***************************************************************************)
TextE == <<"e">>
RecordNames == {NameDb, NameA}
\* the description argument of from and to: left out, the empty string, a text
RecordDescArgs == {Undefined, Some(<< >>), Some(TextD)}

InitRecord ==
  /\ Idle
  /\ reqUA = Some(UACurrent)
  /\ optSendHeaders = TRUE
  /\ resHeader = NoHeader
  /\ probe = << >>
  /\ probeOut = Undefined

RecordFrom == FromWith(RecordNames, RecordDescArgs)
RecordTo == ToWith(RecordNames, RecordDescArgs)
RecordDescription == DescriptionWith(RecordNames, {Some(TextE)})
RecordDuration == DurationWith(RecordNames, DurationArgs)
RecordAdd == AddWith(RecordNames, {Some(TextD)}, AddDurationArgs)

NextRecord ==
  \/ serverTimingMiddleware
  \/ RecordFrom
  \/ RecordTo
  \/ RecordDescription
  \/ RecordDuration
  \/ RecordAdd
  \/ Tick
  \/ WriteHead

SpecRecord == InitRecord /\ [][NextRecord]_vars

(***************************************************************************)
(* The token grammar as the specification words it                         *)
(***************************************************************************)
TokenChars ==
  {"!","#","$","%","&","'","*","+","-",".","^","_",Grave,"|","~"}
    \cup Range(DigitChars) \cup Range(Lower) \cup Range(Upper)

IsToken(name) == Len(name) >= 1 /\ \A i \in DOMAIN name : name[i] \in TokenChars

\* a finalize call has been made and it ended without an error
Finalized1 == lastFinal.seq > 0 /\ lastFinal.err = NoError

(***************************************************************************)
(* Claims                                                                  *)
(***************************************************************************)

\* C1: every addHeaders call made while the response's headerSent flag is true
\* ends with the AlreadySent error, writes no server-timing header and leaves
\* the metrics store (and the rest of the session) as it was.
C1_AlreadySent ==
  [][ (lastFinal'.seq # lastFinal.seq /\ headerSent)
        => /\ lastFinal'.err = HEADERS_SENT
           /\ ~lastFinal'.wrote
           /\ resHeader' = resHeader
           /\ metrics' = metrics
           /\ metricsProto' = metricsProto
           /\ objProto' = objProto
           /\ hooks' = hooks ]_vars

\* C1 witness: addHeaders was refused on a sent response while metrics were stored
C1_Witness ==
  /\ lastFinal.sentBefore
  /\ lastFinal.err = HEADERS_SENT
  /\ Len(metrics) > 0

\* C2: every from, to, description, duration or add call whose name is not a
\* token ends with the InvalidName error and changes nothing in the metrics
\* store, whatever the session holds.
C2_InvalidNameNoMutation ==
  [][ (steps' # steps /\ lastCall'.op # "none" /\ ~IsToken(lastCall'.name))
        => /\ lastCall'.err = INVALID_NAME
           /\ metrics' = metrics
           /\ metricsProto' = metricsProto
           /\ objProto' = objProto ]_vars

\* C2 witness: a call with an invalid name was refused while metrics were stored
C2_Witness ==
  /\ lastCall.op = "from"
  /\ ~IsToken(lastCall.name)
  /\ lastCall.err = INVALID_NAME
  /\ Len(metrics) > 0

\* C3: nameIsValid accepts exactly the non-empty names made of token
\* characters; the empty name and names with whitespace or a separator are
\* rejected.
C3_NameGrammar ==
  IsDefined(probeOut) => (Val(probeOut) <=> IsToken(probe))

\* C3 witness: an upper-case letter followed by a grave accent was accepted
C3_Witness ==
  /\ IsDefined(probeOut)
  /\ Val(probeOut)
  /\ probe = <<"Z", Grave>>

\* C4: with sendHeaders = true the onHeaders listener calls addHeaders exactly
\* once, when the headers are about to be sent and before headerSent is true;
\* it writes the header at most once, and the header never changes after the
\* headers were sent.
C4_FinalizeOnce ==
  /\ [](optSendHeaders /\ pc # "request"
          => /\ listenerRuns = (IF pc = "sent" THEN 1 ELSE 0)
             /\ listenerWrites <= 1
             /\ (lastFinal.via = "listener"
                   => ~lastFinal.sentBefore /\ lastFinal.err = NoError))
  /\ [][headerSent => resHeader' = resHeader]_vars

\* C4 witness: the response was sent and the listener's one call wrote the header
C4_Witness ==
  /\ optSendHeaders
  /\ pc = "sent"
  /\ listenerRuns = 1
  /\ listenerWrites = 1
  /\ lastFinal.via = "listener"

\* C5: with no hooks, a successful finalize emits one fragment per distinct
\* recorded name, each as a header value of its own, in the order in which the
\* names were first inserted into the session (digit-only names included).
C5_InsertionOrder ==
  Finalized1 =>
    /\ [i \in DOMAIN lastFinal.args |-> lastFinal.args[i].name] = lastFinal.seen
    /\ Len(lastFinal.frags) = Len(lastFinal.seen)

\* the fragment the specification words for a metric with a description
ClaimFragment(n, d, x, legacy) ==
  IF legacy
    THEN n \o <<"=">> \o NumberToString(x) \o <<";"," ","\"">> \o d \o <<"\"">>
    ELSE n \o <<";","d","e","s","c","=","\"">> \o d \o <<"\"">>
           \o <<";","d","u","r","=">> \o NumberToString(x)

\* C6: when add(n, d, x) is followed immediately by finalize, the fragment
\* emitted for n is exactly n;desc="d";dur=x in the current format and
\* n=x; "d" in the legacy format.
C6_AddThenFinalize ==
  (Finalized1 /\ lastFinal.call.op = "add" /\ lastFinal.call.err = NoError) =>
    \E i \in DOMAIN lastFinal.frags :
       /\ lastFinal.args[i].name = lastFinal.call.name
       /\ lastFinal.frags[i] =
            ClaimFragment(lastFinal.call.name, Val(lastFinal.call.desc),
                          Val(lastFinal.call.dur), oldSpecification)

\* the Chrome major version written after the first Chrome token
ClaimVersion(ua) == DigitRun(ua, IndexOf(ua, ChromeToken) + 1 + Len(ChromeToken))

ClaimLegacy(ua) ==
  /\ IndexOf(ua, ChromeToken) > -1
  /\ Len(ClaimVersion(ua)) > 0
  /\ ParseInt(ClaimVersion(ua)) <= 64

\* C7: the session's legacy-format flag is true exactly when the user agent
\* holds a Chrome token followed by a major version of at most 64; no Chrome
\* token, or no version that can be parsed, selects the current format.
C7_LegacyFlag ==
  pc = "handling" => (oldSpecification <=> ClaimLegacy(UserAgentArg(reqUA)))

\* the metric has a duration of its own
HasDuration(m) == "duration" \in DOMAIN m /\ IsDefined(m["duration"])

\* C8: a metric on which a duration ms was set (by duration or by add, the
\* default 0 of add included) is emitted with exactly ms as its duration,
\* whatever its timestamps or the session defaults would give.
C8_DurationPrecedence ==
  Finalized1 =>
    \A i \in DOMAIN lastFinal.updated :
       HasDuration(lastFinal.updated[i].m) =>
         /\ lastFinal.times[i] = Val(lastFinal.updated[i].m["duration"])
         /\ lastFinal.frags[i] =
              (IF oldSpecification
                 THEN oldStyle(lastFinal.args[i].name, lastFinal.args[i].description,
                               lastFinal.updated[i].m["duration"])
                 ELSE newStyle(lastFinal.args[i].name, lastFinal.args[i].description,
                               lastFinal.updated[i].m["duration"]))

\* the metric has the field as a property of its own
Own(m, field) == field \in DOMAIN m /\ IsDefined(m[field])

\* the metric was recorded with from and to and finalize read no duration for it
IntervalOnly(i) ==
  /\ Own(lastFinal.updated[i].m, "from")
  /\ Own(lastFinal.updated[i].m, "to")
  /\ ~IsDefined(lastFinal.args[i].duration)

C10_DefaultInterval ==
  Finalized1 =>
    \A i \in DOMAIN lastFinal.updated :
       LET m == lastFinal.updated[i].m
       IN /\ ~Own(m, "from") => lastFinal.args[i].from = lastFinal.init
          /\ ~Own(m, "to") => lastFinal.args[i].to = lastFinal.now
          /\ (~Own(m, "from") /\ ~Own(m, "to") /\ ~Own(m, "duration")) =>
               lastFinal.times[i] = ToMillis(lastFinal.now) - ToMillis(lastFinal.init)

\* the identities of the hooks of a list
HookIds(hs) == {hs[i].id : i \in DOMAIN hs}

\* C11: a successful finalize applies every registered hook once, in ascending
\* index order, hooks of equal index in the order in which they were added;
\* for every sequence of addHook and removeHook calls and for a second
\* finalize of the session as well.
C11_HookOrder ==
  Finalized1 =>
    /\ Len(lastFinal.applied) = Len(lastFinal.hooksBefore)
    /\ HookIds(lastFinal.applied) = HookIds(lastFinal.hooksBefore)
    /\ \A i, j \in DOMAIN lastFinal.applied :
          i < j =>
            \/ lastFinal.applied[i].index < lastFinal.applied[j].index
            \/ /\ lastFinal.applied[i].index = lastFinal.applied[j].index
               /\ lastFinal.applied[i].id < lastFinal.applied[j].id

\* C11 witness: a second finalize found a hook registered after a hook of
\* higher index, and applied two hooks of equal index
C11_Witness ==
  /\ lastFinal.seq = 2
  /\ lastFinal.err = NoError
  /\ \E i, j \in DOMAIN lastFinal.hooksBefore :
        i < j /\ lastFinal.hooksBefore[i].index > lastFinal.hooksBefore[j].index
  /\ \E i, j \in DOMAIN lastFinal.applied :
        i < j /\ lastFinal.applied[i].index = lastFinal.applied[j].index

\* C12: a hook added without an explicit index gets the index (number of hooks
\* currently registered) + 1, and finalize applies it after every
\* still-registered hook that was added before it; for every sequence of
\* addHook and removeHook calls.
C12_ImplicitIndexRunsLast ==
  /\ [][ (lastCall'.op = "addHook" /\ steps' # steps /\ ~IsDefined(lastCall'.dur))
           => /\ Len(hooks') = Len(hooks) + 1
              /\ hooks'[Len(hooks')].index = Len(hooks) + 1 ]_vars
  /\ [](Finalized1 =>
          \A i, j \in DOMAIN lastFinal.applied :
             (~lastFinal.applied[j].explicit
                /\ lastFinal.applied[i].id < lastFinal.applied[j].id) => i < j)

\* C13: removeHook(name) removes every registered hook of that name and no
\* other hook, raises no error (also when no hook has that name), and no
\* removed hook is applied by a later finalize.
C13_RemoveHook ==
  /\ [][ (lastCall'.op = "removeHook" /\ steps' # steps)
           => /\ lastCall'.err = NoError
              /\ \A i \in DOMAIN hooks' : hooks'[i].name # lastCall'.name
              /\ \E keep \in SUBSET (DOMAIN hooks) :
                    /\ keep = {i \in DOMAIN hooks : hooks[i].name # lastCall'.name}
                    /\ Len(hooks') = Cardinality(keep)
                    /\ \A i \in keep :
                          hooks'[Cardinality({k \in keep : k <= i})] = hooks[i] ]_vars
  /\ [](HookIds(lastFinal.applied) \cap lastFinal.removed = {})
  /\ [](HookIds(hooks) \cap removedHooks = {})

\* C13 witness: two hooks of one name were removed, a hook of another name
\* stayed and a later finalize applied it
C13_Witness ==
  /\ Finalized1
  /\ Cardinality(lastFinal.removed) >= 2
  /\ Len(lastFinal.applied) >= 1

\* what the hooks return when their transforms are applied one after the
\* other, the first hook first
RECURSIVE ClaimFold(_, _, _)
ClaimFold(hs, ms, env) ==
  IF Len(hs) = 0 THEN ms
  ELSE ClaimFold(Tail(hs), ApplyCallback(Head(hs).callback, ms, env), env)

\* C14: finalize renders the mapping obtained by folding the hooks' transforms,
\* in order, over the session's metrics: one fragment per entry of that
\* mapping, none for a metric a hook deleted, and a duration a hook set is the
\* duration emitted.
C14_FoldedMapping ==
  Finalized1 =>
    LET folded == ClaimFold(lastFinal.applied, lastFinal.before,
                            [proto |-> lastFinal.objProto, init |-> lastFinal.init,
                             now |-> lastFinal.now])
    IN /\ Len(lastFinal.frags) = Len(folded)
       /\ \A i \in DOMAIN folded :
             /\ lastFinal.args[i].name = folded[i].name
             /\ HasDuration(folded[i].m) =>
                  /\ lastFinal.times[i] = Val(folded[i].m["duration"])
                  /\ lastFinal.frags[i] =
                       ClaimFragment(folded[i].name, Val(folded[i].m["description"]),
                                     Val(folded[i].m["duration"]), oldSpecification)

\* C15: when the response already carries server-timing values, as a single
\* value or as a list, the header after a successful finalize is those values
\* in their order followed by the new fragments in emission order.
C15_ExistingValuesKept ==
  (Finalized1 /\ Len(lastFinal.headerBefore.values) > 0) =>
    lastFinal.headerAfter.values = lastFinal.headerBefore.values \o lastFinal.frags

\* a finalize call has just been made and it ended without an error
FinalizeStep == lastFinal'.seq # lastFinal.seq /\ lastFinal'.err = NoError

\* C16: a successful finalize leaves the metrics store empty, so a second
\* finalize of the session with no recording call in between renders no
\* fragment and leaves the server-timing header as it was.
C16_SecondFinalizeEmpty ==
  /\ [][FinalizeStep => (metrics' = << >> /\ ~metricsProto')]_vars
  /\ []((lastFinal.seq >= 2 /\ lastFinal.err = NoError /\ lastFinal.seen = << >>)
          => /\ lastFinal.frags = << >>
             /\ lastFinal.headerAfter = lastFinal.headerBefore)

\* C16 witness: a second finalize ran on a header the first finalize had
\* written a fragment to, with no recording call in between
C16_Witness ==
  /\ lastFinal.seq = 2
  /\ lastFinal.err = NoError
  /\ lastFinal.seen = << >>
  /\ Len(lastFinal.headerBefore.values) >= 2
  /\ lastFinal.headerAfter = lastFinal.headerBefore

\* C17: a successful finalize leaves the registered hooks (names, transforms,
\* indexes) as they were: each hook registered before it is registered after
\* it, and the next finalize of the session applies each of them again.
C17_HooksPersist ==
  /\ [][FinalizeStep => (Len(hooks') = Len(hooks) /\ Range(hooks') = Range(hooks))]_vars
  /\ []((lastFinal.seq >= 2 /\ lastFinal.err = NoError)
          => /\ Len(lastFinal.applied) = Len(lastFinal.hooksBefore)
             /\ Range(lastFinal.applied) = Range(lastFinal.hooksBefore))

\* C17 witness: a second finalize applied the hooks the first one had sorted
\* into another order than the one they were added in
C17_Witness ==
  /\ lastFinal.seq = 2
  /\ lastFinal.err = NoError
  /\ Len(lastFinal.applied) >= 2
  /\ \E i, j \in DOMAIN lastFinal.hooksBefore :
        i < j /\ lastFinal.hooksBefore[i].id > lastFinal.hooksBefore[j].id

\* a recording call has just returned without an error
RecordStep(ops) ==
  steps' # steps /\ lastCall'.op \in ops /\ lastCall'.err = NoError

\* the fields a call writes: its own, and for from and to the description
\* when one was given
WrittenBy(call) ==
  IF call.op \in {"from", "to"}
    THEN {call.op} \cup (IF IsDefined(call.desc) THEN {"description"} ELSE {})
    ELSE {call.op}

\* the value a call writes to its own field
ValueOfCall(call, now) ==
  CASE call.op \in {"from", "to"} -> Some(now)
    [] call.op = "description"   -> call.desc
    [] call.op = "duration"      -> call.dur

\* field f is the same in both records: absent in both or equal in both
SameField(m1, m2, f) ==
  /\ (f \in DOMAIN m1) <=> (f \in DOMAIN m2)
  /\ f \in DOMAIN m1 => m1[f] = m2[f]

\* C18: on an existing metric, from, to, description and duration overwrite
\* their own field and keep every other field of the metric and every other
\* metric (duration(n, x) after add(n, d, y) leaves description d with
\* duration x; description(n, d2) after add(n, d1, y) leaves d2 with y).
C18_OverwriteOwnField ==
  [][ (RecordStep({"from", "to", "description", "duration"})
         /\ HasOwn(metrics, lastCall'.name))
        => LET i == OwnIndex(metrics, lastCall'.name)
           IN /\ Len(metrics') = Len(metrics)
              /\ \A k \in DOMAIN metrics : k # i => metrics'[k] = metrics[k]
              /\ metrics'[i].name = lastCall'.name
              /\ lastCall'.op \in DOMAIN metrics'[i].m
              /\ metrics'[i].m[lastCall'.op] = ValueOfCall(lastCall', clock)
              /\ \A f \in Fields \ WrittenBy(lastCall') :
                    SameField(metrics'[i].m, metrics[i].m, f) ]_vars

\* C18 witness: duration(n, x) after add(n, d, y), with another metric stored:
\* n has description d and duration x
C18_Witness ==
  /\ lastCall.op = "duration"
  /\ lastCall.err = NoError
  /\ Len(metrics) >= 2
  /\ \E i \in DOMAIN metrics :
        /\ metrics[i].name = lastCall.name
        /\ DOMAIN metrics[i].m = {"description", "duration"}
        /\ metrics[i].m["description"] = Some(TextD)
        /\ metrics[i].m["duration"] = lastCall.dur
        /\ lastCall.dur = Some(0)

\* the entries of the store whose name is not the given one, in order
Others(ms, name) == SelectSeq(ms, LAMBDA entry : entry.name # name)

\* C19: add(name, description, duration) with a valid name replaces the whole
\* entry of name by {description, duration} (duration 0 when left out): from
\* and to recorded earlier are dropped and no other metric changes.
C19_AddReplacesEntry ==
  [][ RecordStep({"add"})
        => /\ HasOwn(metrics', lastCall'.name)
           /\ LET m == metrics'[OwnIndex(metrics', lastCall'.name)].m
              IN /\ DOMAIN m = {"description", "duration"}
                 /\ m["description"] = lastCall'.desc
                 /\ m["duration"] = (IF IsDefined(lastCall'.dur)
                                       THEN lastCall'.dur ELSE Some(0))
           /\ Others(metrics', lastCall'.name) = Others(metrics, lastCall'.name)
           /\ objProto' = objProto
           /\ metricsProto' = metricsProto ]_vars

\* C20: from(name, description) and to(name, description) with a valid name
\* create the entry if it is absent, set its from (to) timestamp to the current
\* time and, whenever a description argument is given, set the description to
\* it.
C20_FromToRecord ==
  [][ RecordStep({"from", "to"})
        => /\ HasOwn(metrics', lastCall'.name)
           /\ LET m == metrics'[OwnIndex(metrics', lastCall'.name)].m
              IN /\ lastCall'.op \in DOMAIN m
                 /\ m[lastCall'.op] = Some(clock)
                 /\ IsDefined(lastCall'.desc) =>
                      ("description" \in DOMAIN m /\ m["description"] = lastCall'.desc)
           /\ Others(metrics', lastCall'.name) = Others(metrics, lastCall'.name) ]_vars

(***************************************************************************)
(* SpecTwo: two requests served by the same process.  Every request has    *)
(* its own request, response and session; the clock, the middleware's      *)
(* option and Object.prototype belong to the process.  The handlers are    *)
(* asynchronous, so the calls of the two requests interleave.              *)
(***************************************************************************)
\* the request whose handler is not running
Parked ==
  [pc |-> pc, reqUA |-> reqUA, oldSpecification |-> oldSpecification,
   initialized |-> initialized, sendHeaders |-> sendHeaders, metrics |-> metrics,
   metricsProto |-> metricsProto, hooks |-> hooks, resHeader |-> resHeader,
   headerSent |-> headerSent, listeners |-> listeners, nextCalls |-> nextCalls,
   lastCall |-> lastCall, firstSeen |-> firstSeen, lastFinal |-> lastFinal,
   listenerRuns |-> listenerRuns, listenerWrites |-> listenerWrites,
   removedHooks |-> removedHooks]

\* the event loop goes on with the handler of the other request
Switch ==
  /\ other' = Parked
  /\ pc' = other.pc
  /\ reqUA' = other.reqUA
  /\ oldSpecification' = other.oldSpecification
  /\ initialized' = other.initialized
  /\ sendHeaders' = other.sendHeaders
  /\ metrics' = other.metrics
  /\ metricsProto' = other.metricsProto
  /\ hooks' = other.hooks
  /\ resHeader' = other.resHeader
  /\ headerSent' = other.headerSent
  /\ listeners' = other.listeners
  /\ nextCalls' = other.nextCalls
  /\ lastCall' = other.lastCall
  /\ firstSeen' = other.firstSeen
  /\ lastFinal' = other.lastFinal
  /\ listenerRuns' = other.listenerRuns
  /\ listenerWrites' = other.listenerWrites
  /\ removedHooks' = other.removedHooks
  /\ UNCHANGED <<optSendHeaders, objProto, clock, steps, probe, probeOut>>

InitTwo ==
  /\ Idle
  /\ reqUA = Some(UACurrent)
  /\ optSendHeaders = TRUE
  /\ resHeader = NoHeader
  /\ probe = << >>
  /\ probeOut = Undefined

NextTwo ==
  \/ serverTimingMiddleware
  \/ Switch
  \/ FromWith({NameDb}, {Undefined})
  \/ DescriptionWith({NameDb, ProtoName}, {Some(TextD)})
  \/ CallAddHeaders
  \/ WriteHead

SpecTwo == InitTwo /\ [][NextTwo]_vars

\* C23: the sessions of different requests are independent: what a session
\* emits is what it would emit had the other request not existed.  For the
\* first finalize of a session that never recorded the name __proto__ itself,
\* the fragments are those of its own metrics and hooks in a process whose
\* Object.prototype nobody wrote to.
C23_SessionsIndependent ==
  (/\ lastFinal.seq = 1
   /\ lastFinal.err = NoError
   /\ ProtoName \notin Range(lastFinal.seen))
    => lastFinal.frags =
         Finalized([metrics |-> lastFinal.before, proto |-> FALSE,
                    objProto |-> EmptyObject, err |-> NoError],
                   lastFinal.hooksBefore, lastFinal.init, oldSpecification,
                   lastFinal.headerBefore, lastFinal.now).frags

\* C21: a middleware created with sendHeaders = false still creates the
\* session, which records metrics, but installs no subscription to the
\* about-to-send-headers event: the middleware never calls finalize and never
\* writes a server-timing header for the response.
C21_NoSubscription ==
  /\ []((~optSendHeaders /\ pc # "request")
          => /\ sendHeaders = FALSE
             /\ listeners = 0
             /\ listenerRuns = 0
             /\ listenerWrites = 0
             /\ lastFinal.via # "listener")
  /\ [][ (~optSendHeaders /\ pc = "handling" /\ pc' = "sent")
           => /\ resHeader' = resHeader
              /\ metrics' = metrics
              /\ lastFinal' = lastFinal ]_vars

\* C21 witness: with sendHeaders = false the response was sent with no header
\* while the session held a recorded metric
C21_Witness ==
  /\ ~optSendHeaders
  /\ pc = "sent"
  /\ resHeader = NoHeader
  /\ Len(metrics) > 0
  /\ lastFinal.seq = 0

\* C22: for a request, with either value of sendHeaders, the middleware makes
\* a fresh session from the request's user agent (no metrics, no hooks, its
\* format and its initialization time set), attaches it, and calls next()
\* exactly once, with no arguments.
C22_FreshSessionAndNext ==
  /\ [][ (pc = "request" /\ pc' = "handling")
           => /\ metrics' = << >>
              /\ ~metricsProto'
              /\ hooks' = << >>
              /\ initialized' = clock
              /\ sendHeaders' = optSendHeaders
              /\ oldSpecification' = ClaimLegacy(UserAgentArg(reqUA))
              /\ nextCalls' = Append(nextCalls, << >>) ]_vars
  /\ [](nextCalls = (IF pc = "request" THEN << >> ELSE << << >> >>))

\* C22 witness: a request of a legacy client went through a middleware with
\* sendHeaders = false and next() was called once
C22_Witness ==
  /\ pc = "handling"
  /\ ~optSendHeaders
  /\ oldSpecification
  /\ nextCalls = << << >> >>

(***************************************************************************)
(* SpecSmart: calculateDurationSmart called by handler or hook code on a   *)
(* metric-like record, at any moment of a session                          *)
(***************************************************************************)
LaterClock == Advance(Advance(StartClock))

\* metric-like records: no field, a duration (0 or not), timestamps, both
SmartArgs ==
  {[duration |-> Some(0)],
   [duration |-> Some(123)],
   [from |-> Some(LaterClock)],
   [to |-> Some(StartClock)],
   [from |-> Some(StartClock), to |-> Some(LaterClock)],
   [from |-> Some(StartClock), duration |-> Some(0)],
   [description |-> Some(TextD)]}

InitSmart ==
  /\ Idle
  /\ reqUA \in UserAgents
  /\ optSendHeaders = TRUE
  /\ resHeader = NoHeader
  /\ probe \in SmartArgs
  /\ probeOut = Undefined

\* (variant: the result is kept on the argument as its duration)
CallCalculateDurationSmartStoring ==
  /\ pc # "request"
  /\ steps < MaxSteps
  /\ probeOut' = Some(calculateDurationSmart(probe, objProto, initialized, clock))
  /\ probe' = SetField(probe, "duration", probeOut')
  /\ steps' = steps + 1
  /\ lastCall' = [op |-> "calculateDurationSmart", name |-> << >>, desc |-> Undefined,
                  dur |-> Undefined, err |-> NoError]
  /\ UNCHANGED <<other, removedHooks, pc, reqUA, optSendHeaders, oldSpecification,
                 initialized, sendHeaders, metrics, metricsProto, hooks, objProto,
                 clock, resHeader, headerSent, listeners, nextCalls, firstSeen,
                 lastFinal, listenerRuns, listenerWrites>>
\* request.serverTiming.calculateDurationSmart(metric), metric being the probe
CallCalculateDurationSmart ==
  /\ pc # "request"
  /\ steps < MaxSteps
  /\ probeOut' = Some(calculateDurationSmart(probe, objProto, initialized, clock))
  /\ steps' = steps + 1
  /\ lastCall' = [op |-> "calculateDurationSmart", name |-> << >>, desc |-> Undefined,
                  dur |-> Undefined, err |-> NoError]
  /\ UNCHANGED <<other, removedHooks, pc, reqUA, optSendHeaders, oldSpecification,
                 initialized, sendHeaders, metrics, metricsProto, hooks, objProto,
                 clock, resHeader, headerSent, listeners, nextCalls, firstSeen,
                 lastFinal, listenerRuns, listenerWrites, probe>>

NextSmart ==
  \/ serverTimingMiddleware
  \/ FromWith({NameDb}, {Undefined})
  \/ AddHookWith({"h1"}, {"copy"}, {Undefined})
  \/ CallCalculateDurationSmart
  \/ Tick

SpecSmart == InitSmart /\ [][NextSmart]_vars

\* the fragment the specification words for a metric whose description may be
\* missing: the description part is there only when d is defined
ClaimShape(n, d, x, legacy) ==
  IF legacy
    THEN n \o <<"=">> \o NumberToString(x)
           \o (IF IsDefined(d) THEN <<";"," ","\"">> \o Val(d) \o <<"\"">> ELSE << >>)
    ELSE n \o (IF IsDefined(d) THEN <<";","d","e","s","c","=","\"">> \o Val(d) \o <<"\"">>
                               ELSE << >>)
           \o <<";","d","u","r","=">> \o NumberToString(x)

\* the description the metric has, if it has one
OwnDescription(m) == IF Own(m, "description") THEN m["description"] ELSE Undefined

\* C24: in a rendered fragment the description part is present only if the
\* metric has a description: name;desc="d";dur=x or name;dur=x in the current
\* format, name=x; "d" or name=x in the legacy format.  A metric recorded with
\* from/to and no description has no description part at all.
C24_FieldsOnlyIfDefined ==
  Finalized1 =>
    \A i \in DOMAIN lastFinal.updated :
       lastFinal.frags[i] =
         ClaimShape(lastFinal.updated[i].name, OwnDescription(lastFinal.updated[i].m),
                    lastFinal.times[i], oldSpecification)

(***************************************************************************)
(* SpecWire: descriptions with characters that are special inside a        *)
(* quoted string                                                           *)
(***************************************************************************)
TextQuoted == <<"a", "\"", "b">>
WireDescArgs == {Some(TextD), Some(TextQuoted)}

InitWire ==
  /\ Idle
  /\ reqUA \in UserAgents
  /\ optSendHeaders = TRUE
  /\ resHeader = NoHeader
  /\ probe = << >>
  /\ probeOut = Undefined

NextWire ==
  \/ serverTimingMiddleware
  \/ FromWith({NameDb, NameA}, {Undefined} \cup WireDescArgs)
  \/ DescriptionWith({NameDb, NameA}, WireDescArgs)
  \/ AddWith({NameDb, NameA}, WireDescArgs, {Some(123)})
  \/ Tick
  \/ WriteHead

SpecWire == InitWire /\ [][NextWire]_vars

\* the text between the quotes of a quoted-string: any character but a double
\* quote or a backslash, or a backslash followed by a character
RECURSIVE IsQuotedText(_, _)
IsQuotedText(s, i) ==
  IF i > Len(s) THEN TRUE
  ELSE IF s[i] = "\\" THEN i + 1 <= Len(s) /\ IsQuotedText(s, i + 2)
  ELSE IF s[i] = "\"" THEN FALSE
  ELSE IsQuotedText(s, i + 1)

IsQuotedString(s) ==
  /\ Len(s) >= 2
  /\ s[1] = "\""
  /\ s[Len(s)] = "\""
  /\ IsQuotedText(SubSeq(s, 2, Len(s) - 1), 1)

IsNumber(s) == Len(s) >= 1 /\ \A i \in DOMAIN s : IsDigit(s[i])

\* s starts with the prefix; Rest is what follows it
HasPrefix(s, prefix) ==
  Len(s) >= Len(prefix) /\ SubSeq(s, 1, Len(prefix)) = prefix

Rest(s, prefix) == SubSeq(s, Len(prefix) + 1, Len(s))

\* token(;desc="quoted-string")?(;dur=number)?
IsCurrentWire(v) ==
  \E k \in 1..Len(v), j \in 0..Len(v) :
     /\ k <= j
     /\ IsToken(SubSeq(v, 1, k))
     /\ LET d == SubSeq(v, k + 1, j)
            x == SubSeq(v, j + 1, Len(v))
        IN /\ d = << >> \/ (HasPrefix(d, <<";","d","e","s","c","=">>)
                              /\ IsQuotedString(Rest(d, <<";","d","e","s","c","=">>)))
           /\ x = << >> \/ (HasPrefix(x, <<";","d","u","r","=">>)
                              /\ IsNumber(Rest(x, <<";","d","u","r","=">>)))

\* token(=number)?(; "quoted-string")?
IsLegacyWire(v) ==
  \E k \in 1..Len(v), j \in 0..Len(v) :
     /\ k <= j
     /\ IsToken(SubSeq(v, 1, k))
     /\ LET x == SubSeq(v, k + 1, j)
            d == SubSeq(v, j + 1, Len(v))
        IN /\ x = << >> \/ (HasPrefix(x, <<"=">>) /\ IsNumber(Rest(x, <<"=">>)))
           /\ d = << >> \/ (HasPrefix(d, <<";"," ">>)
                              /\ IsQuotedString(Rest(d, <<";"," ">>)))

\* C26: every header value that finalize writes for a metric matches the wire
\* grammar of the session's format: a token, the description as a well-formed
\* quoted string, the duration as a number, whatever the recording calls and
\* the description texts were.
C26_WireGrammar ==
  Finalized1 =>
    \A i \in DOMAIN lastFinal.frags :
       IF oldSpecification THEN IsLegacyWire(lastFinal.frags[i])
                           ELSE IsCurrentWire(lastFinal.frags[i])

(***************************************************************************)
(* SpecMillis: calculateDuration on timestamps of a process that has been  *)
(* up for a long time.  process.hrtime() counts from an arbitrary moment   *)
(* in the past (the start of the machine); from[0] * 1e3 + from[1] * 1e-6  *)
(* is a sum of doubles and is rounded to the nearest double before         *)
(* parseInt truncates it.  Below 2^34 ms the spacing of the doubles is     *)
(* under 2 ns and the rounding never reaches the next integer (there       *)
(* ToMillis is the result); from 2^34 ms on it is 3.8 ns and from 2^35 ms  *)
(* on 7.6 ns, so a sum at most 1 ns, or 3 ns, under a whole millisecond is *)
(* rounded to it.  Values are pairs <<seconds, milliseconds>>, for         *)
(* timestamps under 2^36 ms.                                               *)
(***************************************************************************)
\* parseInt(ts[0] * 1e3 + ts[1] * 1e-6, 10)
ParseIntMillis(ts) ==
  LET s == ts[1]
      q == ts[2] \div NanosPerMilli
      toNext == NanosPerMilli - (ts[2] % NanosPerMilli)
      AtLeast(hs, hq) == s > hs \/ (s = hs /\ q >= hq)
      reach == IF AtLeast(34359738, 368) THEN 3
               ELSE IF AtLeast(17179869, 184) THEN 1
               ELSE 0
      m == IF toNext <= reach THEN q + 1 ELSE q
  IN IF m = 1000 THEN <<s + 1, 0>> ELSE <<s, m>>

\* Math.abs(toTime - fromTime), with its operands
calculateDurationWide(fromTs, toTs) ==
  LET fromTime == ParseIntMillis(fromTs)
      toTime == ParseIntMillis(toTs)
  IN [fromTime |-> fromTime, toTime |-> toTime,
      duration |-> Abs((toTime[1] - fromTime[1]) * 1000 + (toTime[2] - fromTime[2]))]

\* uptimes: a fresh process, 2^34 ms (198 days) and 2^35 ms (397 days)
UptimeSeconds == {0, 1, 17179869, 17179870, 34359738, 34359739}
UptimeNanos == {0, 999999, 1000000, 183999999, 184999999, 367999997, 368999997,
                999999998, 999999999}
Timestamps == UptimeSeconds \X UptimeNanos
\* two timestamps of the same process, at most a second apart
TimestampPairs ==
  {p \in Timestamps \X Timestamps : Abs(p[2][1] - p[1][1]) <= 1}

InitMillis ==
  /\ Idle
  /\ reqUA = Some(UACurrent)
  /\ optSendHeaders = TRUE
  /\ resHeader = NoHeader
  /\ probe \in TimestampPairs
  /\ probeOut = Undefined

\* ServerTiming.calculateDuration(from, to), from and to being the probe
CallCalculateDuration ==
  /\ probeOut = Undefined
  /\ probeOut' = Some(calculateDurationWide(probe[1], probe[2]))
  /\ UNCHANGED <<other, removedHooks, pc, reqUA, optSendHeaders, oldSpecification,
                 initialized, sendHeaders, metrics, metricsProto, hooks, objProto,
                 clock, resHeader, headerSent, listeners, nextCalls, steps,
                 lastCall, firstSeen, lastFinal, listenerRuns, listenerWrites,
                 probe>>

NextMillis ==
  \/ CallCalculateDuration

SpecMillis == InitMillis /\ [][NextMillis]_vars

\* what the specification says calculateDurationSmart returns
ClaimSmart(m, init, now) ==
  IF Own(m, "duration")
    THEN Val(m["duration"])
    ELSE Abs(ToMillis(IF Own(m, "to") THEN Val(m["to"]) ELSE now)
               - ToMillis(IF Own(m, "from") THEN Val(m["from"]) ELSE init))

\* C25: calculateDurationSmart(metric) returns metric.duration whenever a
\* duration is set on the record, 0 included, and otherwise the absolute value
\* of toMillis(to or now) - toMillis(from or initializedAt); the result is
\* never negative.
C25_SmartDuration ==
  lastCall.op = "calculateDurationSmart" =>
    /\ probeOut = Some(ClaimSmart(probe, initialized, clock))
    /\ Val(probeOut) >= 0

\* C29: calculateDurationSmart has no effect on the session: the metrics
\* store, the hook list, the format flag and initializedAt are the same after
\* the call as before, and the argument record is not modified.
C29_SmartNoEffect ==
  [][ lastCall'.op = "calculateDurationSmart"
        => /\ metrics' = metrics
           /\ metricsProto' = metricsProto
           /\ hooks' = hooks
           /\ oldSpecification' = oldSpecification
           /\ initialized' = initialized
           /\ probe' = probe ]_vars

\* C29 witness: the helper was called, with a result, on a session that
\* holds a metric and a hook
C29_Witness ==
  /\ lastCall.op = "calculateDurationSmart"
  /\ IsDefined(probeOut)
  /\ Len(metrics) > 0
  /\ Len(hooks) > 0

\* C27: finalize sets the response's server-timing header only if the
\* resulting value list is non-empty: a finalize that renders no fragment on
\* a response without server-timing values leaves the header untouched, and
\* the metrics store is cleared all the same.
C27_SetOnlyIfNonEmpty ==
  /\ [](Finalized1 =>
          /\ lastFinal.wrote => (/\ lastFinal.headerAfter.kind = "array"
                                 /\ Len(lastFinal.headerAfter.values) > 0)
          /\ ~lastFinal.wrote => lastFinal.headerAfter = lastFinal.headerBefore
          /\ (lastFinal.frags = << >> /\ lastFinal.headerBefore = NoHeader)
               => (~lastFinal.wrote /\ lastFinal.headerAfter = NoHeader))
  /\ [][ (FinalizeStep /\ lastFinal'.frags = << >> /\ resHeader = NoHeader)
           => (resHeader' = NoHeader /\ metrics' = << >>) ]_vars

\* C27 witness: a session with a hook and no metrics was finalized on a
\* response without server-timing values
C27_Witness ==
  /\ lastFinal.seq = 1
  /\ lastFinal.err = NoError
  /\ lastFinal.before = << >>
  /\ Len(lastFinal.applied) > 0
  /\ lastFinal.headerBefore = NoHeader
  /\ resHeader = NoHeader
  /\ metrics = << >>

\* toMillis as the specification defines it, as <<seconds, milliseconds>>
ClaimMillis(ts) == <<ts[1], ts[2] \div 1000000>>

\* the timestamp is not later than the other one
NotLater(a, b) == a[1] < b[1] \/ (a[1] = b[1] /\ a[2] <= b[2])

\* C28: for timestamps <<seconds, nanoseconds>> with 0 <= nanoseconds < 10^9,
\* toMillis is seconds * 1000 + floor(nanoseconds / 10^6) and the duration
\* computed from two timestamps is the integer difference of their toMillis
\* values; for from <= to it is not negative and differs from the exact
\* elapsed time in milliseconds by less than 1.
C28_ToMillis ==
  IsDefined(probeOut) =>
    LET fromTs == probe[1]
        toTs == probe[2]
        out == Val(probeOut)
        difference == (ClaimMillis(toTs)[1] - ClaimMillis(fromTs)[1]) * 1000
                        + (ClaimMillis(toTs)[2] - ClaimMillis(fromTs)[2])
        elapsedNanos == (toTs[1] - fromTs[1]) * 1000000000 + (toTs[2] - fromTs[2])
    IN /\ out.fromTime = ClaimMillis(fromTs)
       /\ out.toTime = ClaimMillis(toTs)
       /\ NotLater(fromTs, toTs) =>
            /\ out.duration = difference
            /\ out.duration >= 0
            /\ Abs(out.duration * 1000000 - elapsedNanos) < 1000000

\* C30: the wire format of a session is fixed at construction: no recording
\* or finalize call changes oldSpecification, and every fragment the session
\* emits, at every finalize, is in the format chosen from the request's user
\* agent.
C30_FormatFixed ==
  /\ [][pc # "request" => oldSpecification' = oldSpecification]_vars
  /\ [](Finalized1 =>
          \A i \in DOMAIN lastFinal.frags :
             LET r == RenderInput(lastFinal.args[i])
             IN lastFinal.frags[i] =
                  (IF OldSpecificationOf(UserAgentArg(reqUA))
                     THEN oldStyle(r.name, r.description, Some(r.time))
                     ELSE newStyle(r.name, r.description, Some(r.time))))

\* C30 witness: the second finalize of a session of a legacy client rendered
\* a fragment after the first one had rendered one
C30_Witness ==
  /\ lastFinal.seq = 2
  /\ lastFinal.err = NoError
  /\ oldSpecification
  /\ Len(lastFinal.frags) > 0
  /\ \E v \in Range(lastFinal.headerBefore.values) : v # UpstreamValue

(***************************************************************************)
(* SpecThrow: hooks that raise an error, return nothing or return a value  *)
(* that is not a mapping, on the requests of SpecHeader                    *)
(***************************************************************************)
\* the callbacks that raise an error or return a value that is not a mapping
BadCallbacks == {"throw", "undefined", "number"}

NextThrow ==
  \/ serverTimingMiddleware
  \/ AddWith({NameDb}, {Some(TextD)}, {Some(123)})
  \/ AddHookWith({"h1"}, BadCallbacks, {Undefined})
  \/ CallAddHeaders
  \/ WriteHead

SpecThrow == InitHeader /\ [][NextThrow]_vars

\* the recording calls that go through set
SetOps == {"from", "to", "description", "duration"}

\* C31: for every name that passes the token grammar, the built-in property
\* names included, after from, to, description or duration on that name has
\* returned without error the metrics store holds an entry of its own for the
\* name, and the next finalize with no hooks emits a fragment for it.
C31_OwnEntryForEveryName ==
  /\ (lastCall.op \in SetOps /\ lastCall.err = NoError)
       => HasOwn(metrics, lastCall.name)
  /\ (Finalized1 /\ lastFinal.hooksBefore = << >>
        /\ lastFinal.call.op \in SetOps /\ lastFinal.call.err = NoError)
       => \E i \in DOMAIN lastFinal.frags : lastFinal.args[i].name = lastFinal.call.name

C33_FinalizesConcatenate ==
  [][ FinalizeStep
        => /\ resHeader'.values = resHeader.values \o lastFinal'.frags
           /\ Len(lastFinal'.frags) = Len(firstSeen)
           /\ {lastFinal'.args[i].name : i \in DOMAIN lastFinal'.args} = Range(firstSeen)
           /\ metrics' = << >>
           /\ firstSeen' = << >> ]_vars

\* C35: under the middleware with sendHeaders = true, every metric recorded
\* before the response is about to send its headers appears in that response's
\* server-timing header, and a metric recorded after that moment is never
\* written to the response: the header stays as it was sent and the entry
\* stays in the store.
C35_RecordedBeforeSending ==
  /\ []((optSendHeaders /\ pc = "sent" /\ lastFinal.via = "listener")
          => \A n \in Range(lastFinal.seen) :
                \E i \in DOMAIN lastFinal.frags :
                   /\ lastFinal.args[i].name = n
                   /\ lastFinal.frags[i] \in Range(resHeader.values))
  /\ [][ (optSendHeaders /\ pc = "sent")
           => /\ resHeader' = resHeader
              /\ \A i \in DOMAIN metrics : HasOwn(metrics', metrics[i].name) ]_vars

\* C34: if a hook transform raises an error during finalize, or returns a
\* value that is not a mapping, finalize ends with an error, writes nothing to
\* the response's server-timing header and does not clear the metrics store.
\* The case taken is a session whose last hook, in the order of application,
\* is such a transform.
C34_HookFailure ==
  [][ (/\ lastFinal'.seq # lastFinal.seq
       /\ ~headerSent
       /\ Len(hooks) > 0
       /\ SortHooks(hooks)[Len(hooks)].callback \in BadCallbacks)
        => /\ lastFinal'.err # NoError
           /\ resHeader' = resHeader
           /\ metrics' = metrics ]_vars

====
